---- MODULE Spec2Model ----
(***************************************************************************)
(* A model of the Form session of src/src/index.ts (class Form, lines      *)
(* 43-180) together with the standard adaptor of src/unnamed/part_001      *)
(* (lines 10-88).                                                          *)
(*                                                                         *)
(* One step of the model is one synchronous run of the program: a public   *)
(* method up to its first await, or the continuation of an async method    *)
(* after the awaited promise settled.                                      *)
(***************************************************************************)
EXTENDS Integers, Sequences, FiniteSets, TLC

VARIABLES
  adaptor,                 \* Form.adaptor: the adaptor chosen by the constructor
  fieldErrors,             \* Form.fieldErrors
  submitting,              \* Form.submitting
  data,                    \* Form.data
  formError,               \* Form.formError
  isValid,                 \* Form.isValid
  lastValidateController,  \* Form.lastValidateController: 0 is null, n > 0 the controller of call n
  aborted,                 \* the AbortControllers whose signal.aborted is true
  subscribers,             \* Form.subscribers: slice -> callbacks in insertion order
  closures,                \* the (slice, callback) pairs for which subscribe returned an unsubscribe function
  vstarted,                \* number of validate calls started so far (call ids are 1..vstarted)
  vcalls,                  \* the validate calls suspended at `await this.adaptor.validate(data)`
  latest,                  \* history: the adaptor outcome of the most recently started validate call,
                           \* whether reset() was called since it started, and whether no
                           \* other call was in flight when it started
  hstarted,                \* number of handle-wrapper invocations started so far
  hcalls,                  \* the wrapper invocations suspended at `await fn(...)`
  received,                \* what the callbacks of each slice were last called with
  workload,                \* how many calls of each kind the client makes in this behaviour
  op,                      \* history: the last synchronous run and the fields it started from
  trace                    \* history: what that run did that an observer can see, in order

vars == <<adaptor, fieldErrors, submitting, data, formError, isValid,
          lastValidateController, aborted, subscribers, closures, vstarted,
          vcalls, latest, hstarted, hcalls, received, workload, op, trace>>

-----------------------------------------------------------------------------
(* Bounds of the exploration *)

MaxCalls == 3      \* validate calls of the client that overlaps validations
MaxHandles == 2    \* wrapper invocations of the client that overlaps submissions
MaxSubs == 2       \* subscribe calls of the client that manages subscriptions

\* The clients explored: each constructs the Form with one adaptor, makes many
\* calls of one kind and few of the others, and subscribes the callbacks it has
\* to the slices it watches.
Workloads ==
  { [adaptor |-> "standard", validate |-> MaxCalls, handle |-> 0, subscribe |-> 1,
     keys |-> {"data", "isValid", "bogus"}, callbacks |-> {"cb1"}, records |-> FALSE],
    [adaptor |-> "custom", validate |-> MaxCalls, handle |-> 0, subscribe |-> 1,
     keys |-> {"fieldErrors", "formError"}, callbacks |-> {"cb1"}, records |-> FALSE],
    [adaptor |-> "standard", validate |-> 1, handle |-> MaxHandles, subscribe |-> 1,
     keys |-> {"submitting"}, callbacks |-> {"cb1"}, records |-> FALSE],
    [adaptor |-> "standard", validate |-> 2, handle |-> 1, subscribe |-> 1,
     keys |-> {"isValid"}, callbacks |-> {"cb1"}, records |-> FALSE],
    [adaptor |-> "custom", validate |-> 1, handle |-> 1, subscribe |-> MaxSubs,
     keys |-> {"submitting", "data", "bogus"}, callbacks |-> {"cb1", "cb2"}, records |-> FALSE] }

-----------------------------------------------------------------------------
(* JavaScript values.  Every value is a record [t, v] so that values of    *)
(* different JavaScript types can be compared.                             *)

JNull == [t |-> "null", v |-> ""]
JUndefined == [t |-> "undefined", v |-> ""]
JTrue == [t |-> "boolean", v |-> "true"]
JFalse == [t |-> "boolean", v |-> "false"]
JStr(s) == [t |-> "string", v |-> s]
JBool(b) == IF b THEN JTrue ELSE JFalse

\* A property an object does not have.
Absent == [t |-> "absent", v |-> ""]

\* JavaScript truthiness, as used by `if (error)`, `!x` and `!!x`.
Truthy(x) ==
  \/ x = JTrue
  \/ x.t = "string" /\ x.v # ""

\* The property names that occur in the explored objects.
AllKeys == {"name", "email", "note"}

\* A plain object: every name maps to its value, or to Absent.
EmptyObject == [k \in AllKeys |-> Absent]
Keys(o) == {k \in AllKeys : o[k] # Absent}
Get(o, k) == IF o[k] = Absent THEN JUndefined ELSE o[k]
Put(o, k, x) == [o EXCEPT ![k] = x]

\* Object.assign(target, source): every own property of source is copied.
ObjectAssign(target, source) ==
  [k \in AllKeys |-> IF source[k] # Absent THEN source[k] ELSE target[k]]

-----------------------------------------------------------------------------
(* Validators.  A validator is caller code: a function of the data         *)
(* snapshot that returns null, undefined, a boolean or a string, or throws *)
(* (or rejects), and that may assign to a property of the snapshot.  The   *)
(* kinds below are the validators of the README and of index.test.ts.      *)

\* The validator v run on the object o: what it returns, whether it threw,
\* and the object afterwards.
Invoke(v, o) ==
  LET x == Get(o, v.field)
      ret(out) == [out |-> out, thrown |-> FALSE, o |-> o]
  IN CASE v.kind = "notString" ->    \* ({ name }) => typeof name !== "string"
            ret(JBool(x.t # "string"))
       [] v.kind = "emptyToNull" ->  \* (form) => form.name === "" && (form.name = null)
            IF x = JStr("")
              THEN [out |-> JNull, thrown |-> FALSE, o |-> Put(o, v.field, JNull)]
              ELSE ret(JFalse)
       [] v.kind = "required" ->     \* ({ name }) => !name && "Required"
            ret(IF Truthy(x) THEN JFalse ELSE JStr(v.msg))
       [] v.kind = "mandatory" ->    \* ({ name }) => !name && true
            ret(IF Truthy(x) THEN JFalse ELSE JTrue)
       [] v.kind = "throws" ->       \* if (!email) throw new Error(...); return null
            IF Truthy(x) THEN ret(JNull)
                         ELSE [out |-> JUndefined, thrown |-> TRUE, o |-> o]
       [] v.kind = "delay" ->        \* () => new Promise((r) => setTimeout(r, 1))
            ret(JUndefined)
       [] v.kind = "alwaysTrue" ->   \* () => true
            ret(JTrue)
       [] v.kind = "always" ->       \* () => "X"
            ret(JStr(v.msg))
       [] v.kind = "sameAs" ->       \* ({ a, b }) => a && b === a ? msg : null
            ret(IF Truthy(x) /\ Get(o, v.other) = x THEN JStr(v.msg) ELSE JNull)

Validator(kind, field) == [kind |-> kind, field |-> field, other |-> field, msg |-> "Required"]

-----------------------------------------------------------------------------
(* The standard adaptor, src/unnamed/part_001 *)

\* The objects one adaptor.validate call works with: the caller's object,
\* the snapshot d of line 24 and the clone of line 79.
Refs == {"input", "d", "merged"}

\* A structuredClone that returns its argument: no copy is made.
StructuredClone_Alias(heap, src, new) ==
  [ref |-> src, heap |-> heap]

\* structuredClone(heap[src]): a new object, stored at `new`, with the same
\* properties; the reference to it is returned.
StructuredClone(heap, src, new) ==
  [ref |-> new, heap |-> [heap EXCEPT ![new] = heap[src]]]

\* options.defaultMessage(field)
DefaultMessage(options, field) ==
  CASE options.defaultMessage = "default" -> "Required"         \* () => "Required"
    [] options.defaultMessage = "mandatory" -> field \o " is mandatory"
    [] options.defaultMessage = "empty" -> ""                     \* () => ""

\* A field chain without the `break` of lines 44 and 49: every validator runs
\* and the last error recorded stays.
RECURSIVE FieldChain_RunsWholeChain(_, _, _, _, _)
FieldChain_RunsWholeChain(options, field, validators, j, state) ==
  IF j > Len(validators) THEN state
  ELSE
    LET r == Invoke(validators[j], state.heap[state.d])
        s1 == [state EXCEPT !.heap[state.d] = r.o,
                            !.invoked = Append(@, [at |-> field, i |-> j,
                                                   saw |-> state.heap[state.d],
                                                   out |-> r.out, thrown |-> r.thrown,
                                                   left |-> r.o])]
        s2 == IF r.thrown \/ r.out = JTrue
                THEN [s1 EXCEPT !.fieldErrors[field] = JStr(DefaultMessage(options, field))]
              ELSE IF Truthy(r.out)
                THEN [s1 EXCEPT !.fieldErrors[field] = r.out]
              ELSE s1
    IN FieldChain_RunsWholeChain(options, field, validators, j + 1, s2)

\* A field chain without the catch of lines 46-50: a validator that throws
\* counts as one that passed.
RECURSIVE FieldChain_IgnoresThrow(_, _, _, _, _)
FieldChain_IgnoresThrow(options, field, validators, j, state) ==
  IF j > Len(validators) THEN state
  ELSE
    LET r == Invoke(validators[j], state.heap[state.d])
        s1 == [state EXCEPT !.heap[state.d] = r.o,
                            !.invoked = Append(@, [at |-> field, i |-> j,
                                                   saw |-> state.heap[state.d],
                                                   out |-> r.out, thrown |-> r.thrown,
                                                   left |-> r.o])]
    IN IF ~r.thrown /\ Truthy(r.out)
         THEN IF r.out = JTrue
                THEN [s1 EXCEPT !.fieldErrors[field] = JStr(DefaultMessage(options, field))]
                ELSE [s1 EXCEPT !.fieldErrors[field] = r.out]
       ELSE FieldChain_IgnoresThrow(options, field, validators, j + 1, s1)

\* A field chain that records "Required" for true, whatever defaultMessage is.
RECURSIVE FieldChain_TrueIsRequired(_, _, _, _, _)
FieldChain_TrueIsRequired(options, field, validators, j, state) ==
  IF j > Len(validators) THEN state
  ELSE
    LET r == Invoke(validators[j], state.heap[state.d])
        s1 == [state EXCEPT !.heap[state.d] = r.o,
                            !.invoked = Append(@, [at |-> field, i |-> j,
                                                   saw |-> state.heap[state.d],
                                                   out |-> r.out, thrown |-> r.thrown,
                                                   left |-> r.o])]
    IN IF r.thrown
         THEN [s1 EXCEPT !.fieldErrors[field] = JStr(DefaultMessage(options, field))]
       ELSE IF Truthy(r.out)
         THEN IF r.out = JTrue
                THEN [s1 EXCEPT !.fieldErrors[field] = JStr("Required")]
                ELSE [s1 EXCEPT !.fieldErrors[field] = r.out]
       ELSE FieldChain_TrueIsRequired(options, field, validators, j + 1, s1)

\* A field chain that passes every validator its own copy of the snapshot, so
\* that what a validator assigns is lost.
RECURSIVE FieldChain_FreshCloneEachCall(_, _, _, _, _)
FieldChain_FreshCloneEachCall(options, field, validators, j, state) ==
  IF j > Len(validators) THEN state
  ELSE
    LET r == Invoke(validators[j], state.heap[state.d])
        s1 == [state EXCEPT !.invoked = Append(@, [at |-> field, i |-> j,
                                                   saw |-> state.heap[state.d],
                                                   out |-> r.out, thrown |-> r.thrown,
                                                   left |-> r.o])]
    IN IF r.thrown
         THEN [s1 EXCEPT !.fieldErrors[field] = JStr(DefaultMessage(options, field))]
       ELSE IF Truthy(r.out)
         THEN IF r.out = JTrue
                THEN [s1 EXCEPT !.fieldErrors[field] = JStr(DefaultMessage(options, field))]
                ELSE [s1 EXCEPT !.fieldErrors[field] = r.out]
       ELSE FieldChain_FreshCloneEachCall(options, field, validators, j + 1, s1)

\* for (const v of validators) { ... }, from validator j on
RECURSIVE FieldChain(_, _, _, _, _)
FieldChain(options, field, validators, j, state) ==
  IF j > Len(validators) THEN state
  ELSE
    LET r == Invoke(validators[j], state.heap[state.d])
        s1 == [state EXCEPT !.heap[state.d] = r.o,
                            !.invoked = Append(@, [at |-> field, i |-> j,
                                                   saw |-> state.heap[state.d],
                                                   out |-> r.out, thrown |-> r.thrown,
                                                   left |-> r.o])]
    IN IF r.thrown
         THEN [s1 EXCEPT !.fieldErrors[field] = JStr(DefaultMessage(options, field))]
       ELSE IF Truthy(r.out)
         THEN IF r.out = JTrue
                THEN [s1 EXCEPT !.fieldErrors[field] = JStr(DefaultMessage(options, field))]
                ELSE [s1 EXCEPT !.fieldErrors[field] = r.out]
       ELSE FieldChain(options, field, validators, j + 1, s1)

\* A field loop that skips a field whose chain is empty as it skips one whose
\* chain is undefined.
RECURSIVE FieldLoop_SkipsEmptyChain(_, _, _)
FieldLoop_SkipsEmptyChain(options, i, state) ==
  IF i > Len(options.fields) THEN state
  ELSE IF ~options.fields[i].defined \/ options.fields[i].validators = << >>
    THEN FieldLoop_SkipsEmptyChain(options, i + 1, state)
  ELSE
    LET field == options.fields[i].name
        s1 == FieldChain(options, field, options.fields[i].validators, 1, state)
        s2 == IF ~Truthy(Get(s1.fieldErrors, field))
                THEN [s1 EXCEPT !.data[field] = Get(s1.heap[s1.d], field)]
                ELSE s1
    IN FieldLoop_SkipsEmptyChain(options, i + 1, s2)

\* for (const field in fields) { ... }, from the i-th configured field on
RECURSIVE FieldLoop(_, _, _)
FieldLoop(options, i, state) ==
  IF i > Len(options.fields) THEN state
  ELSE IF ~options.fields[i].defined     \* if (!validators) continue
    THEN FieldLoop(options, i + 1, state)
  ELSE
    LET field == options.fields[i].name
        s1 == FieldChain(options, field, options.fields[i].validators, 1, state)
        s2 == IF ~Truthy(Get(s1.fieldErrors, field))
                THEN [s1 EXCEPT !.data[field] = Get(s1.heap[s1.d], field)]
                ELSE s1
    IN FieldLoop(options, i + 1, s2)

\* A form-level loop that is skipped when a field error was recorded.
RECURSIVE FormChain_SkippedOnFieldErrors(_, _, _)
FormChain_SkippedOnFieldErrors(form, j, state) ==
  IF j > Len(form) \/ Keys(state.fieldErrors) # {} THEN state
  ELSE
    LET r == Invoke(form[j], state.heap[state.d])
        s1 == [state EXCEPT !.heap[state.d] = r.o,
                            !.invoked = Append(@, [at |-> "#form", i |-> j,
                                                   saw |-> state.heap[state.d],
                                                   out |-> r.out, thrown |-> r.thrown,
                                                   left |-> r.o])]
    IN IF r.thrown
         THEN [s1 EXCEPT !.formError = JStr("Failed to validate form")]
       ELSE IF Truthy(r.out)
         THEN IF r.out = JTrue
                THEN [s1 EXCEPT !.formError = JStr("Failed to validate form")]
                ELSE [s1 EXCEPT !.formError = r.out]
       ELSE FormChain_SkippedOnFieldErrors(form, j + 1, s1)

\* A form-level loop that records true as "Required" and a throw as the
\* error's own message.
RECURSIVE FormChain_NoFixedMessage(_, _, _)
FormChain_NoFixedMessage(form, j, state) ==
  IF j > Len(form) THEN state
  ELSE
    LET r == Invoke(form[j], state.heap[state.d])
        s1 == [state EXCEPT !.heap[state.d] = r.o,
                            !.invoked = Append(@, [at |-> "#form", i |-> j,
                                                   saw |-> state.heap[state.d],
                                                   out |-> r.out, thrown |-> r.thrown,
                                                   left |-> r.o])]
    IN IF r.thrown
         THEN [s1 EXCEPT !.formError = JStr("Validation failed")]
       ELSE IF Truthy(r.out)
         THEN IF r.out = JTrue
                THEN [s1 EXCEPT !.formError = JStr("Required")]
                ELSE [s1 EXCEPT !.formError = r.out]
       ELSE FormChain_NoFixedMessage(form, j + 1, s1)

\* for (const validator of form) { ... }, from validator j on
RECURSIVE FormChain(_, _, _)
FormChain(form, j, state) ==
  IF j > Len(form) THEN state
  ELSE
    LET r == Invoke(form[j], state.heap[state.d])
        s1 == [state EXCEPT !.heap[state.d] = r.o,
                            !.invoked = Append(@, [at |-> "#form", i |-> j,
                                                   saw |-> state.heap[state.d],
                                                   out |-> r.out, thrown |-> r.thrown,
                                                   left |-> r.o])]
    IN IF r.thrown
         THEN [s1 EXCEPT !.formError = JStr("Failed to validate form")]
       ELSE IF Truthy(r.out)
         THEN IF r.out = JTrue
                THEN [s1 EXCEPT !.formError = JStr("Failed to validate form")]
                ELSE [s1 EXCEPT !.formError = r.out]
       ELSE FormChain(form, j + 1, s1)

\* if (loose) { const d = structuredClone(data); Object.assign(d, state.data); state.data = d }
LooseMerge(options, state) ==
  IF options.loose
    THEN LET c == StructuredClone(state.heap, "input", "merged")
             merged == ObjectAssign(c.heap[c.ref], state.data)
         IN [state EXCEPT !.heap = [c.heap EXCEPT ![c.ref] = merged],
                          !.data = merged]
    ELSE state

\* standardAdaptor(options).validate(raw): how the returned promise settles.
\* `given` is the caller's object as it was passed, `input` is that object
\* afterwards and `invoked` the validator calls
\* made, in order: which validator, the snapshot it was passed, what it
\* returned or that it threw, and the snapshot it left.
StandardValidate(options, raw) ==
  LET c == StructuredClone([r \in Refs |-> IF r = "input" THEN raw.o ELSE EmptyObject],
                           "input", "d")
      s0 == [heap |-> c.heap, d |-> c.ref,
             fieldErrors |-> EmptyObject, data |-> EmptyObject, formError |-> JNull,
             invoked |-> << >>]
      s3 == LooseMerge(options, FormChain(options.form, 1, FieldLoop(options, 1, s0)))
  IN IF raw.t # "object"
       THEN [rejected |-> TRUE, error |-> "Data is not an object",
             fieldErrors |-> EmptyObject, data |-> EmptyObject, formError |-> JNull,
             given |-> raw.o, input |-> raw.o, invoked |-> << >>]
       ELSE [rejected |-> FALSE, error |-> "",
             fieldErrors |-> s3.fieldErrors, data |-> s3.data, formError |-> s3.formError,
             given |-> raw.o, input |-> s3.heap["input"], invoked |-> s3.invoked]

-----------------------------------------------------------------------------
(* The Form session, src/src/index.ts lines 43-180 *)

\* The slice names subscribe accepts (line 70).
SliceKeys == {"fieldErrors", "submitting", "data", "formError", "isValid"}

\* `this`: the five public fields.
Self ==
  [fieldErrors |-> fieldErrors, submitting |-> submitting, data |-> data,
   formError |-> formError, isValid |-> isValid]

\* The field initialisers of lines 47-51.
Neutral ==
  [fieldErrors |-> EmptyObject, submitting |-> FALSE, data |-> EmptyObject,
   formError |-> JNull, isValid |-> FALSE]

\* getNestedValue(key), for the keys without a dot that notifySubscribers passes.
GetNestedValue(self, key) == self[key]

\* notifySubscribers that notifies every slice, whatever changedKeys is.
NotifySubscribers_AllSlices(self, subs, changedKeys) ==
  LET all == <<"fieldErrors", "submitting", "data", "formError", "isValid">>
  IN [n \in 1..Len(all) |->
        [ev |-> "notify", key |-> all[n], value |-> self[all[n]], cbs |-> subs[all[n]],
         self |-> self]]

\* notifySubscribers(changedKeys): one event per changed key, carrying the value
\* read at line 88, the callbacks of that slice that were called with it, in
\* the order the Set iterates them, and the fields of the Form as those
\* callbacks find them.
NotifySubscribers(self, subs, changedKeys) ==
  [n \in 1..Len(changedKeys) |->
     [ev |-> "notify", key |-> changedKeys[n],
      value |-> GetNestedValue(self, changedKeys[n]),
      cbs |-> subs[changedKeys[n]],
      self |-> self]]

\* hasErrors that tests whether the field is a key of fieldErrors and whether
\* formError is not null.
HasErrors_KeyPresence(self, field) ==
  IF Truthy(field)
    THEN field.v \in Keys(self.fieldErrors)
    ELSE Keys(self.fieldErrors) # {} \/ self.formError # JNull

\* hasErrors(field): field is undefined or a field name.
HasErrors(self, field) ==
  IF Truthy(field)
    THEN Truthy(Get(self.fieldErrors, field.v))
    ELSE Keys(self.fieldErrors) # {} \/ Truthy(self.formError)

\* reset that notifies whatever dontNotify is.
Reset_IgnoresDontNotify(self, subs, dontNotify) ==
  LET s == [self EXCEPT !.fieldErrors = EmptyObject, !.data = EmptyObject,
                        !.formError = JNull, !.isValid = FALSE]
  IN [self |-> s,
      events |-> NotifySubscribers(s, subs, <<"fieldErrors", "data", "formError", "isValid">>)]

\* reset that also assigns submitting = false.
Reset_ClearsSubmitting(self, subs, dontNotify) ==
  LET s == [self EXCEPT !.fieldErrors = EmptyObject, !.submitting = FALSE,
                        !.data = EmptyObject, !.formError = JNull, !.isValid = FALSE]
  IN [self |-> s,
      events |-> IF ~dontNotify
                   THEN NotifySubscribers(s, subs, <<"fieldErrors", "data", "formError", "isValid">>)
                   ELSE << >>]

\* reset that notifies before it assigns.
Reset_NotifiesBeforeClearing(self, subs, dontNotify) ==
  LET s == [self EXCEPT !.fieldErrors = EmptyObject, !.data = EmptyObject,
                        !.formError = JNull, !.isValid = FALSE]
  IN [self |-> s,
      events |-> IF ~dontNotify
                   THEN NotifySubscribers(self, subs, <<"fieldErrors", "data", "formError", "isValid">>)
                   ELSE << >>]

\* reset(dontNotify): the fields afterwards and the notifications made.
Reset(self, subs, dontNotify) ==
  LET s == [self EXCEPT !.fieldErrors = EmptyObject, !.data = EmptyObject,
                        !.formError = JNull, !.isValid = FALSE]
  IN [self |-> s,
      events |-> IF ~dontNotify
                   THEN NotifySubscribers(s, subs, <<"fieldErrors", "data", "formError", "isValid">>)
                   ELSE << >>]

\* A commit that computes isValid before it assigns the result.
Commit_StaleIsValid(self, subs, result) ==
  LET s1 == [self EXCEPT !.isValid = ~HasErrors(self, JUndefined)]
      s2 == [s1 EXCEPT !.fieldErrors = result.fieldErrors, !.data = result.data,
                       !.formError = result.formError]
  IN [self |-> s2,
      events |-> NotifySubscribers(s2, subs, <<"fieldErrors", "data", "formError", "isValid">>)]

\* A commit that notifies each slice right after assigning it.
Commit_NotifiesBetweenAssignments(self, subs, result) ==
  LET s1 == [self EXCEPT !.fieldErrors = result.fieldErrors]
      s2 == [s1 EXCEPT !.data = result.data]
      s3 == [s2 EXCEPT !.formError = result.formError]
      s4 == [s3 EXCEPT !.isValid = ~HasErrors(s3, JUndefined)]
  IN [self |-> s4,
      events |-> NotifySubscribers(s1, subs, <<"fieldErrors">>)
                 \o NotifySubscribers(s2, subs, <<"data">>)
                 \o NotifySubscribers(s3, subs, <<"formError">>)
                 \o NotifySubscribers(s4, subs, <<"isValid">>)]

\* Lines 124-129 of validate: the fields afterwards and the notifications made.
Commit(self, subs, result) ==
  LET s1 == [self EXCEPT !.fieldErrors = result.fieldErrors, !.data = result.data,
                         !.formError = result.formError]
      s2 == [s1 EXCEPT !.isValid = ~HasErrors(s1, JUndefined)]
  IN [self |-> s2,
      events |-> NotifySubscribers(s2, subs, <<"fieldErrors", "data", "formError", "isValid">>)]

\* assert without the isValid check of line 156.
AssertResult_SkipsIsValid(self) ==
  IF HasErrors(self, JUndefined) \/ Truthy(self.formError)
    THEN [ev |-> "throw", error |-> "Form has errors and cannot be submitted"]
    ELSE [ev |-> "return", value |-> self.data]

\* assert(): what it returns or throws.
AssertResult(self) ==
  IF ~self.isValid
    THEN [ev |-> "throw", error |-> "Form has not been validated yet"]
  ELSE IF HasErrors(self, JUndefined) \/ Truthy(self.formError)
    THEN [ev |-> "throw", error |-> "Form has errors and cannot be submitted"]
  ELSE [ev |-> "return", value |-> self.data]

\* The wrapper of handle(fn) on entry: line 143.
HandleEnter(self) == [self EXCEPT !.submitting = TRUE]

\* A wrapper without try/finally: the cleanup runs only when fn resolved.
HandleFinally_NoCleanupOnThrow(self, subs, how, error) ==
  IF how = "reject"
    THEN [self |-> self, events |-> << >>, how |-> how, error |-> error]
    ELSE LET s == [self EXCEPT !.submitting = FALSE]
         IN [self |-> s, events |-> NotifySubscribers(s, subs, <<"submitting">>),
             how |-> how, error |-> error]

\* The wrapper of handle(fn) once fn's promise settled: the finally block, and
\* how the wrapper's promise settles.
HandleFinally(self, subs, how, error) ==
  LET s == [self EXCEPT !.submitting = FALSE]
  IN [self |-> s, events |-> NotifySubscribers(s, subs, <<"submitting">>),
      how |-> how, error |-> error]

Range(seq) == {seq[n] : n \in 1..Len(seq)}

\* subscribe without the key check of lines 69-77.
SubscribeResult_NoKeyCheck(subs, key, cb) ==
  [thrown |-> FALSE,
   subscribers |-> [subs EXCEPT ![key] = IF cb \in Range(@) THEN @ ELSE Append(@, cb)]]

\* subscribe that keeps its callbacks in a list instead of a Set.
SubscribeResult_AppendsAlways(subs, key, cb) ==
  IF key \notin SliceKeys
    THEN [thrown |-> TRUE, subscribers |-> subs]
    ELSE [thrown |-> FALSE, subscribers |-> [subs EXCEPT ![key] = Append(@, cb)]]

\* subscribe(key, callback): the registry afterwards, or the throw of line 74.
SubscribeResult(subs, key, cb) ==
  IF key \notin SliceKeys
    THEN [thrown |-> TRUE, subscribers |-> subs]
    ELSE [thrown |-> FALSE,
          subscribers |-> [subs EXCEPT ![key] = IF cb \in Range(@) THEN @ ELSE Append(@, cb)]]

\* An unsubscribe function that empties the slice's Set.
UnsubscribeResult_ClearsSlice(subs, key, cb) ==
  [subs EXCEPT ![key] = << >>]

\* this.subscribers[key]?.delete(callback)
UnsubscribeResult(subs, key, cb) ==
  LET keep(c) == c # cb
  IN [subs EXCEPT ![key] = SelectSeq(@, keep)]

\* Whether validate, resumed after the adaptor resolved, returns at line 121.
Superseded(signal, abortedSet) == signal \in abortedSet

\* A validate without the finally block: the field keeps its value.
Finally_Absent(controller) == controller

\* The value of lastValidateController when validate returns or throws (the
\* finally block, line 131).
Finally(controller) == 0

-----------------------------------------------------------------------------
(* The environment: the adaptors, inputs and callbacks explored *)

\* new Form({ fields: { name: [...], email: [...] }, form: [...] })
StandardOptions ==
  [fields |-> << [name |-> "name", defined |-> TRUE,
                  validators |-> << Validator("notString", "name"),
                                    Validator("emptyToNull", "name"),
                                    Validator("delay", "name") >>],
                 [name |-> "email", defined |-> TRUE,
                  validators |-> << Validator("notString", "email"),
                                    Validator("required", "email") >>] >>,
   form |-> << [kind |-> "sameAs", field |-> "name", other |-> "email",
                msg |-> "Email cannot be your name"] >>,
   loose |-> FALSE,
   defaultMessage |-> "default"]

Obj(name, email) == [EmptyObject EXCEPT !["name"] = name, !["email"] = email]

\* The arguments passed to validate.
Inputs ==
  { [t |-> "object", o |-> Obj(JStr("John"), JStr("john@example.com"))],
    [t |-> "object", o |-> Obj(JStr(""), JStr(""))],
    [t |-> "null", o |-> EmptyObject] }

\* What a caller-supplied adaptor (new Form({ adaptor })) may settle with: any
\* value of the Adaptor result type of lines 19-25, or a rejection.
CustomOutcomes ==
  { [rejected |-> FALSE, error |-> "", fieldErrors |-> EmptyObject,
     data |-> Obj(JStr("Jane"), JStr("jane@example.com")), formError |-> JNull,
     given |-> EmptyObject, input |-> EmptyObject, invoked |-> << >>],
    [rejected |-> FALSE, error |-> "",
     fieldErrors |-> [EmptyObject EXCEPT !["email"] = JStr("")],
     data |-> EmptyObject, formError |-> JStr("Passwords differ"),
     given |-> EmptyObject, input |-> EmptyObject, invoked |-> << >>],
    [rejected |-> FALSE, error |-> "", fieldErrors |-> EmptyObject,
     data |-> EmptyObject, formError |-> JStr(""),
     given |-> EmptyObject, input |-> EmptyObject, invoked |-> << >>] }

\* The constructor's choice of adaptor (lines 58-62).
Adaptors ==
  { [kind |-> "standard", options |-> StandardOptions],
    [kind |-> "custom", options |-> StandardOptions] }

\* this.adaptor.validate(raw): the ways the returned promise can settle.
AdaptorValidate(a, raw) ==
  IF a.kind = "standard"
    THEN {StandardValidate(a.options, raw)}
    ELSE CustomOutcomes

\* What the function passed to handle can throw.
FnErrors == {"E1", "E2"}

-----------------------------------------------------------------------------
(* Actions *)

SetSelf(s) ==
  /\ fieldErrors' = s.fieldErrors
  /\ submitting' = s.submitting
  /\ data' = s.data
  /\ formError' = s.formError
  /\ isValid' = s.isValid

IsSubmittingNotice(e) == e.ev = "notify" /\ e.key = "submitting"

\* Every wrapper invocation in flight sees the submitting notifications made.
Observe(hc, events) ==
  LET notices == SelectSeq(events, IsSubmittingNotice)
      told == [n \in 1..Len(notices) |->
                 [ev |-> notices[n].ev, key |-> notices[n].key,
                  value |-> notices[n].value, cbs |-> notices[n].cbs]]
  IN [h \in DOMAIN hc |-> [hc[h] EXCEPT !.seen = @ \o told]]

\* The callbacks of a slice are called with the value of line 88 (line 92).
\* The callbacks of a client that records keep the value they were last called
\* with: what each slice's callbacks hold after the notifications made.
Receive(rec, events) ==
  IF ~workload.records
    THEN rec
    ELSE [k \in DOMAIN rec |->
            LET calls == {n \in 1..Len(events) :
                            events[n].key = k /\ events[n].cbs # << >>}
            IN IF calls = {}
                 THEN rec[k]
                 ELSE [called |-> TRUE,
                       value |-> events[CHOOSE n \in calls : \A m \in calls : m <= n].value]]

\* The Form right after construction: the field initialisers of lines 44-53.
Constructed ==
  /\ fieldErrors = Neutral.fieldErrors
  /\ submitting = Neutral.submitting
  /\ data = Neutral.data
  /\ formError = Neutral.formError
  /\ isValid = Neutral.isValid
  /\ lastValidateController = 0
  /\ aborted = {}
  /\ subscribers = [k \in SliceKeys \cup {"bogus"} |-> << >>]
  /\ closures = {}
  /\ vstarted = 0
  /\ vcalls = [i \in {} |-> 0]
  /\ latest = [id |-> 0, outcome |-> 0, reset |-> FALSE, alone |-> TRUE]
  /\ hstarted = 0
  /\ hcalls = [i \in {} |-> 0]
  /\ received = [k \in SliceKeys |-> [called |-> FALSE, value |-> Neutral[k]]]
  /\ op = [name |-> "new", id |-> 0, pre |-> Neutral]
  /\ trace = << >>

Init ==
  /\ workload \in Workloads
  /\ adaptor \in {a \in Adaptors : a.kind = workload.adaptor}
  /\ Constructed

\* validate(raw), lines 101-119: up to the await of the adaptor's promise.
ValidateStart(raw) ==
  /\ vstarted < workload.validate
  /\ \E outcome \in AdaptorValidate(adaptor, raw) :
       LET id == vstarted + 1
           r == Reset(Self, subscribers, TRUE)
       IN /\ aborted' = IF lastValidateController # 0
                          THEN aborted \cup {lastValidateController}
                          ELSE aborted
          /\ lastValidateController' = id
          /\ SetSelf(r.self)
          /\ vstarted' = id
          /\ vcalls' = [i \in DOMAIN vcalls \cup {id} |->
                          IF i = id THEN [signal |-> id, outcome |-> outcome]
                                    ELSE vcalls[i]]
          /\ latest' = [id |-> id, outcome |-> outcome, reset |-> FALSE,
                      alone |-> DOMAIN vcalls = {}]
          /\ hcalls' = Observe(hcalls, r.events)
          /\ received' = Receive(received, r.events)
          /\ op' = [name |-> "validate", id |-> id, pre |-> Self]
          /\ trace' = r.events
  /\ UNCHANGED <<workload, adaptor, subscribers, closures, hstarted>>

\* A validate that, when the adaptor's promise rejects, notifies the four
\* slices of the fields its reset left before it rejects.
ValidateReject_NotifiesNeutral(id) ==
  /\ id \in DOMAIN vcalls
  /\ vcalls[id].outcome.rejected
  /\ LET events == NotifySubscribers(Self, subscribers,
                                     <<"fieldErrors", "data", "formError", "isValid">>)
     IN /\ hcalls' = Observe(hcalls, events)
        /\ received' = Receive(received, events)
        /\ trace' = events \o
                    << [ev |-> "settle", of |-> "validate", id |-> id, how |-> "reject",
                        error |-> vcalls[id].outcome.error] >>
  /\ lastValidateController' = Finally(lastValidateController)
  /\ vcalls' = [i \in DOMAIN vcalls \ {id} |-> vcalls[i]]
  /\ op' = [name |-> "validateResume", id |-> id, pre |-> Self]
  /\ UNCHANGED <<workload, adaptor, fieldErrors, submitting, data, formError, isValid,
                 aborted, subscribers, closures, vstarted, latest, hstarted>>

\* validate resumed with a rejected adaptor promise: the finally block runs
\* and the call's promise rejects with the adaptor's error.
ValidateReject(id) ==
  /\ id \in DOMAIN vcalls
  /\ vcalls[id].outcome.rejected
  /\ lastValidateController' = Finally(lastValidateController)
  /\ vcalls' = [i \in DOMAIN vcalls \ {id} |-> vcalls[i]]
  /\ op' = [name |-> "validateResume", id |-> id, pre |-> Self]
  /\ trace' = << [ev |-> "settle", of |-> "validate", id |-> id, how |-> "reject",
                  error |-> vcalls[id].outcome.error] >>
  /\ UNCHANGED <<workload, adaptor, fieldErrors, submitting, data, formError, isValid,
                 aborted, subscribers, closures, vstarted, latest, hstarted, hcalls,
                 received>>

\* validate resumed with a result after its signal was aborted: line 121.
ValidateDiscard(id) ==
  /\ id \in DOMAIN vcalls
  /\ ~vcalls[id].outcome.rejected
  /\ Superseded(vcalls[id].signal, aborted)
  /\ lastValidateController' = Finally(lastValidateController)
  /\ vcalls' = [i \in DOMAIN vcalls \ {id} |-> vcalls[i]]
  /\ op' = [name |-> "validateResume", id |-> id, pre |-> Self]
  /\ trace' = << [ev |-> "settle", of |-> "validate", id |-> id, how |-> "resolve",
                  error |-> ""] >>
  /\ UNCHANGED <<workload, adaptor, fieldErrors, submitting, data, formError, isValid,
                 aborted, subscribers, closures, vstarted, latest, hstarted, hcalls,
                 received>>

\* validate resumed with a result, its signal not aborted: lines 122-131.
ValidateCommit(id) ==
  /\ id \in DOMAIN vcalls
  /\ ~vcalls[id].outcome.rejected
  /\ ~Superseded(vcalls[id].signal, aborted)
  /\ LET r == Commit(Self, subscribers, vcalls[id].outcome)
     IN /\ SetSelf(r.self)
        /\ hcalls' = Observe(hcalls, r.events)
        /\ received' = Receive(received, r.events)
        /\ trace' = r.events \o
                    << [ev |-> "settle", of |-> "validate", id |-> id, how |-> "resolve",
                        error |-> ""] >>
  /\ lastValidateController' = Finally(0)
  /\ vcalls' = [i \in DOMAIN vcalls \ {id} |-> vcalls[i]]
  /\ op' = [name |-> "validateResume", id |-> id, pre |-> Self]
  /\ UNCHANGED <<workload, adaptor, aborted, subscribers, closures, vstarted, latest, hstarted>>

\* A public reset() that also aborts the validation in flight.
ResetCall_AbortsValidation ==
  /\ LET r == Reset(Self, subscribers, FALSE)
     IN /\ SetSelf(r.self)
        /\ hcalls' = Observe(hcalls, r.events)
        /\ received' = Receive(received, r.events)
        /\ trace' = r.events
  /\ aborted' = IF lastValidateController # 0
                  THEN aborted \cup {lastValidateController}
                  ELSE aborted
  /\ lastValidateController' = 0
  /\ latest' = [latest EXCEPT !.reset = TRUE]
  /\ op' = [name |-> "reset", id |-> 0, pre |-> Self]
  /\ UNCHANGED <<workload, adaptor, subscribers, closures, vstarted, vcalls, hstarted>>

\* reset(): the public call, dontNotify undefined.
ResetCall ==
  /\ LET r == Reset(Self, subscribers, FALSE)
     IN /\ SetSelf(r.self)
        /\ hcalls' = Observe(hcalls, r.events)
        /\ received' = Receive(received, r.events)
        /\ trace' = r.events
  /\ latest' = [latest EXCEPT !.reset = TRUE]
  /\ op' = [name |-> "reset", id |-> 0, pre |-> Self]
  /\ UNCHANGED <<workload, adaptor, lastValidateController, aborted, subscribers, closures,
                 vstarted, vcalls, hstarted>>

\* assert()
AssertCall ==
  /\ op' = [name |-> "assert", id |-> 0, pre |-> Self]
  /\ trace' = << AssertResult(Self) >>
  /\ UNCHANGED <<workload, adaptor, fieldErrors, submitting, data, formError, isValid,
                 lastValidateController, aborted, subscribers, closures, vstarted,
                 vcalls, latest, hstarted, hcalls, received>>

\* hasErrors(field)
HasErrorsCall(field) ==
  /\ op' = [name |-> "hasErrors", id |-> 0, pre |-> Self]
  /\ trace' = << [ev |-> "return", value |-> HasErrors(Self, field), arg |-> field] >>
  /\ UNCHANGED <<workload, adaptor, fieldErrors, submitting, data, formError, isValid,
                 lastValidateController, aborted, subscribers, closures, vstarted,
                 vcalls, latest, hstarted, hcalls, received>>

\* A wrapper that returns at once, without calling fn, when submitting is
\* already true.
HandleInvoke_Guarded ==
  /\ hstarted < workload.handle
  /\ LET id == hstarted + 1
         s == HandleEnter(Self)
         events == NotifySubscribers(s, subscribers, <<"submitting">>)
     IN /\ hstarted' = id
        /\ op' = [name |-> "handle", id |-> id, pre |-> Self]
        /\ IF submitting
             THEN /\ SetSelf(Self)
                  /\ hcalls' = hcalls
                  /\ received' = received
                  /\ trace' = << >>
             ELSE /\ SetSelf(s)
                  /\ hcalls' = Observe([h \in DOMAIN hcalls \cup {id} |->
                                          IF h = id THEN [overlapped |-> FALSE, seen |-> << >>]
                                                    ELSE hcalls[h]],
                                       events)
                  /\ received' = Receive(received, events)
                  /\ trace' = events
  /\ UNCHANGED <<workload, adaptor, lastValidateController, aborted, subscribers, closures,
                 vstarted, vcalls, latest>>

\* The wrapper returned by handle(fn), lines 141-147: up to the await of fn's
\* promise.
HandleInvoke ==
  /\ hstarted < workload.handle
  /\ LET id == hstarted + 1
         s == HandleEnter(Self)
         events == NotifySubscribers(s, subscribers, <<"submitting">>)
         running == [h \in DOMAIN hcalls |-> [hcalls[h] EXCEPT !.overlapped = TRUE]]
     IN /\ SetSelf(s)
        /\ hstarted' = id
        /\ hcalls' = Observe([h \in DOMAIN hcalls \cup {id} |->
                                IF h = id THEN [overlapped |-> DOMAIN hcalls # {}, seen |-> << >>]
                                          ELSE running[h]],
                             events)
        /\ received' = Receive(received, events)
        /\ op' = [name |-> "handle", id |-> id, pre |-> Self]
        /\ trace' = events
  /\ UNCHANGED <<workload, adaptor, lastValidateController, aborted, subscribers, closures,
                 vstarted, vcalls, latest>>

\* The wrapper resumed after fn's promise settled (how is "resolve", or
\* "reject" with fn's error): the finally block of lines 148-151, then the
\* wrapper's own promise settles.
HandleSettle(id, how, error) ==
  /\ id \in DOMAIN hcalls
  /\ LET r == HandleFinally(Self, subscribers, how, error)
         after == Observe(hcalls, r.events)
     IN /\ SetSelf(r.self)
        /\ hcalls' = [h \in DOMAIN hcalls \ {id} |-> after[h]]
        /\ received' = Receive(received, r.events)
        /\ trace' = r.events \o
                    << [ev |-> "settle", of |-> "handle", id |-> id, how |-> r.how,
                        error |-> r.error, overlapped |-> after[id].overlapped,
                        seen |-> after[id].seen] >>
  /\ op' = [name |-> "handleResume", id |-> id, pre |-> Self, how |-> how, error |-> error]
  /\ UNCHANGED <<workload, adaptor, lastValidateController, aborted, subscribers, closures,
                 vstarted, vcalls, latest, hstarted>>

\* subscribe(key, callback), lines 65-84
Subscribe(key, cb) ==
  /\ Cardinality(closures \cup {<<key, cb>>}) <= workload.subscribe
  /\ LET r == SubscribeResult(subscribers, key, cb)
     IN /\ subscribers' = r.subscribers
        /\ closures' = IF r.thrown THEN closures ELSE closures \cup {<<key, cb>>}
        /\ trace' = << IF r.thrown
                         THEN [ev |-> "throw", error |-> "Invalid key", key |-> key, cb |-> cb,
                               before |-> subscribers]
                         ELSE [ev |-> "return", key |-> key, cb |-> cb,
                               before |-> subscribers] >>
  /\ op' = [name |-> "subscribe", id |-> 0, pre |-> Self]
  /\ UNCHANGED <<workload, adaptor, fieldErrors, submitting, data, formError, isValid,
                 lastValidateController, aborted, vstarted, vcalls, latest,
                 hstarted, hcalls, received>>

\* The function subscribe(key, callback) returned, line 82.
Unsubscribe(key, cb) ==
  /\ <<key, cb>> \in closures
  /\ subscribers' = UnsubscribeResult(subscribers, key, cb)
  /\ op' = [name |-> "unsubscribe", id |-> 0, pre |-> Self]
  /\ trace' = << [ev |-> "return", key |-> key, cb |-> cb, before |-> subscribers] >>
  /\ UNCHANGED <<workload, adaptor, fieldErrors, submitting, data, formError, isValid,
                 lastValidateController, aborted, closures, vstarted, vcalls, latest,
                 hstarted, hcalls, received>>

Next ==
  \/ \E raw \in Inputs : ValidateStart(raw)
  \/ \E id \in DOMAIN vcalls : ValidateReject(id)
  \/ \E id \in DOMAIN vcalls : ValidateDiscard(id)
  \/ \E id \in DOMAIN vcalls : ValidateCommit(id)
  \/ ResetCall
  \/ AssertCall
  \/ \E field \in {JUndefined, JStr("email")} : HasErrorsCall(field)
  \/ HandleInvoke
  \/ \E id \in DOMAIN hcalls : HandleSettle(id, "resolve", "")
  \/ \E id \in DOMAIN hcalls, e \in FnErrors : HandleSettle(id, "reject", e)
  \/ \E key \in workload.keys, cb \in workload.callbacks : Subscribe(key, cb)
  \/ \E key \in workload.keys, cb \in workload.callbacks : Unsubscribe(key, cb)

Spec == Init /\ [][Next]_vars

-----------------------------------------------------------------------------
(* One validation by a Form built on the standard adaptor, for every        *)
(* configuration and input below.                                           *)

Chain(validators) == [defined |-> TRUE, validators |-> validators]

\* fields.name: a chain, or undefined
NameChains ==
  { Chain(<< Validator("notString", "name"), Validator("emptyToNull", "name"),
             Validator("delay", "name") >>),
    Chain(<< Validator("alwaysTrue", "name"),
             [kind |-> "always", field |-> "name", other |-> "name", msg |-> "X"] >>),
    Chain(<< Validator("throws", "name"), Validator("required", "name") >>),
    Chain(<< Validator("emptyToNull", "name"), Validator("mandatory", "name") >>),
    [defined |-> FALSE, validators |-> << >>] }

\* fields.email
EmailChains ==
  { Chain(<< Validator("notString", "email"), Validator("required", "email") >>),
    Chain(<< Validator("mandatory", "email"),
             [kind |-> "always", field |-> "email", other |-> "email", msg |-> "Taken"] >>),
    Chain(<< >>) }

\* options.form
FormChains ==
  { << [kind |-> "sameAs", field |-> "name", other |-> "email",
        msg |-> "Email cannot be your name"] >>,
    << Validator("mandatory", "note"),
       [kind |-> "sameAs", field |-> "name", other |-> "email",
        msg |-> "Email cannot be your name"] >>,
    << Validator("throws", "email"),
       [kind |-> "always", field |-> "note", other |-> "note", msg |-> "Never"] >>,
    << >> }

\* The options passed to new Form(options).
OptionsExplored ==
  { [fields |-> << [name |-> "name", defined |-> n.defined, validators |-> n.validators],
                   [name |-> "email", defined |-> e.defined, validators |-> e.validators] >>,
     form |-> f, loose |-> l, defaultMessage |-> m] :
      n \in NameChains, e \in EmailChains, f \in FormChains, l \in BOOLEAN,
      m \in {"default", "mandatory", "empty"} }

\* The arguments passed to validate.
AdaptorInputs ==
  { [t |-> "object", o |-> [name |-> n, email |-> e, note |-> x]] :
      n \in {Absent, JStr(""), JStr("John"), JTrue},
      e \in {Absent, JStr(""), JStr("John"), JStr("john@example.com")},
      x \in {Absent, JStr("hi")} }
  \cup { [t |-> "null", o |-> EmptyObject] }

\* A client that validates once and does nothing else.
AdaptorWorkload ==
  [adaptor |-> "standard", validate |-> 1, handle |-> 0, subscribe |-> 0,
   keys |-> {}, callbacks |-> {}, records |-> FALSE]

AdaptorInit ==
  /\ workload = AdaptorWorkload
  /\ adaptor \in {[kind |-> "standard", options |-> o] : o \in OptionsExplored}
  /\ Constructed

AdaptorNext ==
  \/ \E raw \in AdaptorInputs : ValidateStart(raw)
  \/ \E id \in DOMAIN vcalls : ValidateReject(id)
  \/ \E id \in DOMAIN vcalls : ValidateCommit(id)

SpecAdaptor == AdaptorInit /\ [][AdaptorNext]_vars

-----------------------------------------------------------------------------
(* A client whose callbacks keep the value they were last called with, as   *)
(* the mock callbacks of the tests do.                                      *)

ObservedWorkloads ==
  { [adaptor |-> "standard", validate |-> MaxCalls, handle |-> 0, subscribe |-> 1,
     keys |-> {"data", "isValid"}, callbacks |-> {"cb1"}, records |-> TRUE] }

ObservedInit ==
  /\ workload \in ObservedWorkloads
  /\ adaptor \in {a \in Adaptors : a.kind = workload.adaptor}
  /\ Constructed

ObservedNext ==
  \/ \E raw \in Inputs : ValidateStart(raw)
  \/ \E id \in DOMAIN vcalls : ValidateReject(id)
  \/ \E id \in DOMAIN vcalls : ValidateDiscard(id)
  \/ \E id \in DOMAIN vcalls : ValidateCommit(id)
  \/ ResetCall
  \/ \E key \in workload.keys, cb \in workload.callbacks : Subscribe(key, cb)
  \/ \E key \in workload.keys, cb \in workload.callbacks : Unsubscribe(key, cb)

SpecObserved == ObservedInit /\ [][ObservedNext]_vars

-----------------------------------------------------------------------------
(* Overlapping validations whose adaptor promises settle: the continuation   *)
(* of every validate call suspended at line 119 is eventually run.           *)

\* Clients that only validate.
LiveWorkloads ==
  { [adaptor |-> a, validate |-> MaxCalls, handle |-> 0, subscribe |-> 0,
     keys |-> {}, callbacks |-> {}, records |-> FALSE] : a \in {"standard", "custom"} }

LiveInit ==
  /\ workload \in LiveWorkloads
  /\ adaptor \in {a \in Adaptors : a.kind = workload.adaptor}
  /\ Constructed

LiveNext ==
  \/ \E raw \in Inputs : ValidateStart(raw)
  \/ \E id \in DOMAIN vcalls : ValidateReject(id)
  \/ \E id \in DOMAIN vcalls : ValidateDiscard(id)
  \/ \E id \in DOMAIN vcalls : ValidateCommit(id)

\* The adaptor's promise of call id settles, and the job that resumes the
\* call is then run.
Resumed(id) == ValidateReject(id) \/ ValidateDiscard(id) \/ ValidateCommit(id)

SpecLive ==
  LiveInit /\ [][LiveNext]_vars /\ \A id \in 1..MaxCalls : WF_vars(Resumed(id))

-----------------------------------------------------------------------------
(* Properties *)

IsNotice(e) == e.ev = "notify"
Notices(t) == SelectSeq(t, IsNotice)
Last(t) == t[Len(t)]

\* The four slices as a validate call that commits `outcome` leaves them.
Committed(outcome) ==
  [fieldErrors |-> outcome.fieldErrors, data |-> outcome.data,
   formError |-> outcome.formError,
   isValid |-> Keys(outcome.fieldErrors) = {} /\ ~Truthy(outcome.formError)]

Shown ==
  [fieldErrors |-> fieldErrors, data |-> data, formError |-> formError,
   isValid |-> isValid]

\* C1: once every validate call has settled (and reset() was not called since
\* the last one started), the four slices are the result of the most recently
\* started call.
C1_LastStartedCallWins ==
  (vstarted > 0 /\ DOMAIN vcalls = {} /\ ~latest.reset /\ ~latest.outcome.rejected)
    => Shown = Committed(latest.outcome)

\* C2: a validate call resumed after a later call started assigns no field
\* and makes no notification.
C2_SupersededNeverCommits ==
  (op.name = "validateResume" /\ op.id < vstarted)
    => /\ Self = op.pre
       /\ Notices(trace) = << >>

\* C3: right after validate's synchronous part fieldErrors and data are empty,
\* formError is null, isValid is false, submitting is what it was, and no
\* subscriber was notified.
C3_ValidateResetsSilently ==
  op.name = "validate"
    => /\ fieldErrors = EmptyObject
       /\ data = EmptyObject
       /\ formError = JNull
       /\ isValid = FALSE
       /\ submitting = op.pre.submitting
       /\ trace = << >>

C3_Witness ==
  /\ op.name = "validate"
  /\ op.pre.submitting
  /\ op.pre.isValid
  /\ Keys(op.pre.data) # {}
  /\ subscribers["isValid"] # << >>

\* C4 as stated: when the most recently started validate call completes with
\* a result, the fields are the result's and isValid is true iff fieldErrors is
\* empty and formError is null.
C4_IsValidIffNullFormError ==
  (op.name = "validateResume" /\ op.id = vstarted /\ Last(trace).how = "resolve")
    => /\ fieldErrors = latest.outcome.fieldErrors
       /\ data = latest.outcome.data
       /\ formError = latest.outcome.formError
       /\ isValid <=> (Keys(fieldErrors) = {} /\ formError = JNull)

\* C4 amended: ... and isValid is true iff fieldErrors is empty and formError
\* is null or the empty string.
C4_IsValidIffNoTruthyFormError ==
  (op.name = "validateResume" /\ op.id = vstarted /\ Last(trace).how = "resolve")
    => /\ fieldErrors = latest.outcome.fieldErrors
       /\ data = latest.outcome.data
       /\ formError = latest.outcome.formError
       /\ isValid <=> (Keys(fieldErrors) = {} /\ (formError = JNull \/ formError = JStr("")))

C4_Witness ==
  /\ op.name = "validateResume"
  /\ op.id = vstarted
  /\ Last(trace).how = "resolve"
  /\ Keys(op.pre.data) = {}
  /\ Keys(data) # {}
  /\ isValid

\* C5: assert() changes no field; it returns the current data exactly when
\* isValid is true and throws otherwise; on a new Form and right after reset()
\* it throws the "not validated" error.
C5_AssertReturnsDataIffValid ==
  /\ op.name = "assert"
       => /\ Self = op.pre
          /\ Len(trace) = 1
          /\ trace[1].ev = (IF isValid THEN "return" ELSE "throw")
          /\ trace[1].ev = "return" => trace[1].value = data
          /\ vstarted = 0
               => /\ trace[1].ev = "throw"
                  /\ trace[1].error = "Form has not been validated yet"
  /\ op.name \in {"new", "reset"}
       => AssertResult(Self) =
            [ev |-> "throw", error |-> "Form has not been validated yet"]

C5_Witness ==
  /\ op.name = "assert"
  /\ isValid
  /\ trace[1].ev = "return"
  /\ Keys(trace[1].value) # {}

\* C6: assert() called while the fields hold the errors of a completed
\* validation throws the "has errors" error.
C6_AssertReportsHasErrors ==
  (op.name = "assert" /\ HasErrors(Self, JUndefined))
    => /\ trace[1].ev = "throw"
       /\ trace[1].error = "Form has errors and cannot be submitted"

\* C7: when the function passed to handle threw or rejected, the wrapper set
\* submitting to false, notified the submitting subscribers with false, and
\* only then rejected its own promise, with the function's error.
C7_HandleCleansUpOnThrow ==
  (op.name = "handleResume" /\ op.how = "reject")
    => /\ submitting = FALSE
       /\ Len(trace) = 2
       /\ trace[1].ev = "notify"
       /\ trace[1].key = "submitting"
       /\ trace[1].value = FALSE
       /\ trace[1].cbs = subscribers["submitting"]
       /\ trace[2].ev = "settle"
       /\ trace[2].how = "reject"
       /\ trace[2].error = op.error

C7_Witness ==
  /\ op.name = "handleResume"
  /\ op.how = "reject"
  /\ op.pre.submitting
  /\ subscribers["submitting"] # << >>

\* C8: while a wrapper invocation that overlaps no other is in flight,
\* submitting is true; when it settles, the submitting subscribers were
\* notified exactly twice since its entry, with true and then with false.
C8_SubmittingHeldDuringHandle ==
  /\ \A h \in DOMAIN hcalls : ~hcalls[h].overlapped => submitting = TRUE
  /\ (op.name = "handleResume" /\ ~Last(trace).overlapped)
       => /\ Len(Last(trace).seen) = 2
          /\ Last(trace).seen[1].value = TRUE
          /\ Last(trace).seen[2].value = FALSE

C8_Witness ==
  /\ op.name = "validateResume"
  /\ Notices(trace) # << >>
  /\ \E h \in DOMAIN hcalls :
       /\ ~hcalls[h].overlapped
       /\ Len(hcalls[h].seen) = 1
       /\ hcalls[h].seen[1].cbs # << >>
  /\ submitting

\* C9: after the public reset() returns, submitting is false.
C9_ResetClearsSubmitting ==
  op.name = "reset" => submitting = FALSE

\* C10: the public reset() leaves fieldErrors and data empty, formError null
\* and isValid false, notifies every subscriber of each of those four slices
\* once with the neutral value, and a second reset() changes nothing.
C10_ResetNeutralAndIdempotent ==
  op.name = "reset"
    => /\ Shown = [fieldErrors |-> EmptyObject, data |-> EmptyObject,
                   formError |-> JNull, isValid |-> FALSE]
       /\ Len(trace) = 4
       /\ {trace[n].key : n \in 1..4} = {"fieldErrors", "data", "formError", "isValid"}
       /\ \A n \in 1..4 :
            /\ trace[n].ev = "notify"
            /\ trace[n].value = Neutral[trace[n].key]
            /\ \A cb \in Range(subscribers[trace[n].key]) :
                 Cardinality({m \in 1..Len(trace[n].cbs) : trace[n].cbs[m] = cb}) = 1
       /\ Reset(Self, subscribers, FALSE).self = Self

C10_Witness ==
  /\ op.name = "reset"
  /\ op.pre.isValid
  /\ Keys(op.pre.data) # {}
  /\ subscribers["data"] # << >>

\* The callbacks for which subscribe(key, .) returned an unsubscribe function.
Registered(key) == {c \in workload.callbacks : <<key, c>> \in closures}

Occurrences(seq, x) == Cardinality({n \in 1..Len(seq) : seq[n] = x})

\* C11: subscribe throws exactly when the key is not one of the five slice
\* names, and then the registry is what it was; no callback is ever held for,
\* or called through, a key for which subscribe did not return.
C11_InvalidKeyRegistersNothing ==
  /\ op.name = "subscribe"
       => /\ trace[1].ev = (IF trace[1].key \in SliceKeys THEN "return" ELSE "throw")
          /\ trace[1].ev = "throw" => subscribers = trace[1].before
  /\ \A key \in DOMAIN subscribers :
       /\ Range(subscribers[key]) \subseteq Registered(key)
       /\ key \notin SliceKeys => subscribers[key] = << >>
  /\ \A n \in 1..Len(trace) :
       trace[n].ev = "notify"
         => /\ trace[n].key \in SliceKeys
            /\ Range(trace[n].cbs) \subseteq Registered(trace[n].key)

C11_Witness ==
  /\ op.name = "subscribe"
  /\ trace[1].ev = "throw"
  /\ closures # {}
  /\ \E key \in SliceKeys : subscribers[key] # << >>

\* C12: the function subscribe returned removes its callback from its slice
\* and nothing else, and does nothing when the callback is no longer there;
\* every notification of a slice goes to exactly the callbacks the slice holds,
\* so not to a removed one and still to the others.
C12_UnsubscribeRemovesExactlyOne ==
  /\ op.name = "unsubscribe"
       => LET e == trace[1]
              keep(c) == c # e.cb
          IN /\ e.cb \notin Range(subscribers[e.key])
             /\ subscribers[e.key] = SelectSeq(e.before[e.key], keep)
             /\ \A key \in DOMAIN subscribers \ {e.key} : subscribers[key] = e.before[key]
             /\ e.cb \notin Range(e.before[e.key]) => subscribers = e.before
  /\ \A n \in 1..Len(trace) :
       trace[n].ev = "notify" => trace[n].cbs = subscribers[trace[n].key]

\* A notification that reaches the callback left on a slice after the other
\* one was unsubscribed.
C12_Witness ==
  \E n \in 1..Len(trace) :
    /\ trace[n].ev = "notify"
    /\ Len(trace[n].cbs) = 1
    /\ Cardinality(Registered(trace[n].key)) = 2

\* C13: a slice holds each callback at most once, however often it was
\* registered, so a notification calls it once; subscribing a callback the
\* slice already holds changes nothing, and one unsubscribe leaves no
\* registration of it.
C13_SetSemantics ==
  /\ \A key \in DOMAIN subscribers : \A c \in Range(subscribers[key]) :
       Occurrences(subscribers[key], c) = 1
  /\ \A n \in 1..Len(trace) :
       trace[n].ev = "notify"
         => \A c \in Range(subscribers[trace[n].key]) : Occurrences(trace[n].cbs, c) = 1
  /\ (op.name = "subscribe" /\ trace[1].ev = "return"
        /\ trace[1].cb \in Range(trace[1].before[trace[1].key]))
       => subscribers = trace[1].before
  /\ op.name = "unsubscribe"
       => Occurrences(subscribers[trace[1].key], trace[1].cb) = 0

\* The same callback subscribed again to a slice that holds it.
C13_Witness ==
  /\ op.name = "subscribe"
  /\ trace[1].ev = "return"
  /\ trace[1].cb \in Range(trace[1].before[trace[1].key])
  /\ Len(subscribers[trace[1].key]) = 2

\* C14: a validate call that commits notifies the four slices fieldErrors,
\* data, formError and isValid, each once, with the committed value, to each
\* callback of the slice once, and does not notify submitting; a wrapper
\* invocation notifies submitting only and assigns none of the four slices.
C14_NotifiesChangedSlicesOnly ==
  /\ (op.name = "validateResume" /\ Last(trace).how = "resolve" /\ op.id \notin aborted)
       => LET ns == Notices(trace)
          IN /\ Len(ns) = 4
             /\ {ns[n].key : n \in 1..4} = {"fieldErrors", "data", "formError", "isValid"}
             /\ \A n \in 1..4 :
                  /\ ns[n].value = Self[ns[n].key]
                  /\ Range(ns[n].cbs) = Range(subscribers[ns[n].key])
                  /\ \A c \in Range(ns[n].cbs) : Occurrences(ns[n].cbs, c) = 1
  /\ op.name \in {"handle", "handleResume"}
       => /\ \A n \in 1..Len(trace) : trace[n].ev = "notify" => trace[n].key = "submitting"
          /\ Shown = [fieldErrors |-> op.pre.fieldErrors, data |-> op.pre.data,
                       formError |-> op.pre.formError, isValid |-> op.pre.isValid]

C14_Witness ==
  /\ op.name = "validateResume"
  /\ Len(Notices(trace)) = 4
  /\ subscribers["submitting"] # << >>
  /\ subscribers["data"] # << >>
  /\ Keys(data) # {}

-----------------------------------------------------------------------------
(* Properties of one validation by the standard adaptor (SpecAdaptor) *)

\* The validator calls the adaptor made for the most recently started validate.
Calls == IF vstarted = 0 THEN << >> ELSE latest.outcome.invoked

CallsAt(at) ==
  LET here(c) == c.at = at
  IN SelectSeq(Calls, here)

\* The adaptor ran its loops: validate was called with an object.
Validated == vstarted > 0 /\ ~latest.outcome.rejected

\* A call whose validator returned a value that lets the chain go on.
Passing(c) == ~c.thrown /\ c.out \in {JNull, JUndefined, JFalse, JStr("")}

\* The configured fields: those of options.fields that have a chain.
Configured == {i \in 1..Len(adaptor.options.fields) : adaptor.options.fields[i].defined}

\* The calls of a chain of n validators are its validators 1..k in order, all
\* but the last passing, and k < n only when the k-th did not pass.
StopsAtFirstFailure(cs, n) ==
  /\ Len(cs) <= n
  /\ \A m \in 1..Len(cs) : cs[m].i = m
  /\ \A m \in 1..(Len(cs) - 1) : Passing(cs[m])
  /\ Len(cs) < n => (Len(cs) >= 1 /\ ~Passing(cs[Len(cs)]))

Failed(cs) == cs # << >> /\ ~Passing(cs[Len(cs)])

\* C15: each configured field's chain runs in order up to its first
\* non-passing validator, whatever happened in the other fields' chains; a
\* string that validator returned is the field's error, and a field whose
\* chain passed has no error.
C15_FieldChainShortCircuits ==
  Validated =>
    \A i \in Configured :
      LET f == adaptor.options.fields[i]
          cs == CallsAt(f.name)
      IN /\ StopsAtFirstFailure(cs, Len(f.validators))
         /\ Failed(cs) <=> f.name \in Keys(latest.outcome.fieldErrors)
         /\ (Failed(cs) /\ ~cs[Len(cs)].thrown /\ cs[Len(cs)].out.t = "string")
              => latest.outcome.fieldErrors[f.name] = cs[Len(cs)].out

\* Both fields failed in one pass, the first before the end of its chain.
C15_Witness ==
  /\ Validated
  /\ Keys(latest.outcome.fieldErrors) = {"name", "email"}
  /\ Len(CallsAt("name")) < Len(adaptor.options.fields[1].validators)
  /\ Len(CallsAt("email")) = 2

\* The field calls in which the validator threw (or its promise rejected).
ThrownAt == {p \in 1..Len(Calls) : Calls[p].at # "#form" /\ Calls[p].thrown}

\* C16: when a field validator throws, the adaptor still resolves: the field's
\* error is defaultMessage(field), no later validator of that field is called,
\* the later fields' chains and the form-level validators are called, and
\* validate commits the result with isValid false.
C16_FieldThrowIsRecovered ==
  (Validated /\ ThrownAt # {}) =>
    /\ \A p \in ThrownAt :
         LET c == Calls[p]
         IN /\ latest.outcome.fieldErrors[c.at] = JStr(DefaultMessage(adaptor.options, c.at))
            /\ Len(CallsAt(c.at)) = c.i
            /\ \A i \in Configured :
                 LET f == adaptor.options.fields[i]
                 IN (f.name # c.at /\ f.validators # << >>) => CallsAt(f.name) # << >>
    /\ adaptor.options.form # << >> => CallsAt("#form") # << >>
    /\ op.name = "validateResume"
         => /\ Last(trace).how = "resolve"
            /\ fieldErrors = latest.outcome.fieldErrors
            /\ data = latest.outcome.data
            /\ formError = latest.outcome.formError
            /\ isValid = FALSE

\* The first field's validator threw; the second field and the form-level
\* validators ran and the result was committed.
C16_Witness ==
  /\ op.name = "validateResume"
  /\ \E p \in ThrownAt : Calls[p].at = "name"
  /\ CallsAt("email") # << >>
  /\ CallsAt("#form") # << >>
  /\ "email" \in Keys(data)

\* C17: a field validator that returns true records defaultMessage(field),
\* which is "Required" when none is configured; one that returns a non-empty
\* string records that string; after one that returns null, undefined or
\* false the next validator of the chain is called.
C17_FieldOutcomeMapping ==
  Validated =>
    \A p \in 1..Len(Calls) :
      LET c == Calls[p]
      IN (c.at # "#form" /\ ~c.thrown) =>
           /\ c.out = JTrue
                => /\ latest.outcome.fieldErrors[c.at] =
                        JStr(DefaultMessage(adaptor.options, c.at))
                   /\ adaptor.options.defaultMessage = "default"
                        => latest.outcome.fieldErrors[c.at] = JStr("Required")
           /\ (c.out.t = "string" /\ c.out.v # "")
                => latest.outcome.fieldErrors[c.at] = c.out
           /\ c.out \in {JNull, JUndefined, JFalse}
                => \A i \in Configured :
                     (adaptor.options.fields[i].name = c.at
                       /\ c.i < Len(adaptor.options.fields[i].validators))
                       => /\ p < Len(Calls)
                          /\ Calls[p + 1].at = c.at
                          /\ Calls[p + 1].i = c.i + 1

\* A validator returned true under a configured defaultMessage, and another
\* field's validator returned a string.
C17_Witness ==
  /\ Validated
  /\ adaptor.options.defaultMessage = "mandatory"
  /\ \E p \in 1..Len(Calls) : Calls[p].at = "name" /\ Calls[p].out = JTrue
  /\ latest.outcome.fieldErrors["name"] = JStr("name is mandatory")
  /\ latest.outcome.fieldErrors["email"] = JStr("Required")

FormCalls == CallsAt("#form")

\* C18: the form-level validators are called after the last field call, in
\* order, on the snapshot the field validators left, also when a field error
\* was recorded; the first non-passing one ends the chain and a string it
\* returned is formError, which is null when all passed; fieldErrors holds the
\* fields whose chains failed and nothing else; committed with clean fields and
\* a failed form rule, fieldErrors is empty, formError is set and isValid is
\* false.
C18_FormChainAfterFields ==
  Validated =>
    /\ \A p \in 1..Len(Calls), q \in 1..Len(Calls) :
         (Calls[p].at = "#form" /\ Calls[q].at # "#form") => q < p
    /\ StopsAtFirstFailure(FormCalls, Len(adaptor.options.form))
    /\ Calls # << >> => Calls[1].saw = latest.outcome.input
    /\ \A p \in 1..(Len(Calls) - 1) : Calls[p + 1].saw = Calls[p].left
    /\ Failed(FormCalls) <=> latest.outcome.formError # JNull
    /\ (Failed(FormCalls) /\ ~Last(FormCalls).thrown /\ Last(FormCalls).out.t = "string")
         => latest.outcome.formError = Last(FormCalls).out
    /\ Keys(latest.outcome.fieldErrors) =
         {adaptor.options.fields[i].name : i \in {j \in Configured :
            Failed(CallsAt(adaptor.options.fields[j].name))}}
    /\ (op.name = "validateResume" /\ Failed(FormCalls))
         => /\ fieldErrors = latest.outcome.fieldErrors
            /\ formError = latest.outcome.formError
            /\ isValid = FALSE

\* Clean fields and a failing form rule, committed.
C18_Witness ==
  /\ op.name = "validateResume"
  /\ fieldErrors = EmptyObject
  /\ formError = JStr("Email cannot be your name")
  /\ ~isValid
  /\ Keys(data) = {"name", "email"}

\* C19: a form-level validator that throws or returns true makes formError
\* "Failed to validate form", whatever defaultMessage is, and is the last
\* validator called; the adaptor resolves and validate commits the result.
C19_FormFailureFixedMessage ==
  Validated =>
    \A p \in 1..Len(Calls) :
      (Calls[p].at = "#form" /\ (Calls[p].thrown \/ Calls[p].out = JTrue))
        => /\ latest.outcome.formError = JStr("Failed to validate form")
           /\ p = Len(Calls)
           /\ op.name = "validateResume"
                => /\ Last(trace).how = "resolve"
                   /\ formError = JStr("Failed to validate form")
                   /\ isValid = FALSE

\* A form-level validator returned true under a configured defaultMessage,
\* with a second form-level validator after it.
C19_Witness ==
  /\ op.name = "validateResume"
  /\ adaptor.options.defaultMessage = "mandatory"
  /\ FormCalls # << >>
  /\ Last(FormCalls).out = JTrue
  /\ Len(adaptor.options.form) = 2
  /\ formError = JStr("Failed to validate form")


\* C20: without loose, a configured field is a key of the result's data
\* exactly when it is not a key of fieldErrors, and data has no other keys.
C20_DataIffNoFieldError ==
  (Validated /\ ~adaptor.options.loose) =>
    /\ \A i \in Configured :
         LET f == adaptor.options.fields[i].name
         IN f \in Keys(latest.outcome.data) <=> f \notin Keys(latest.outcome.fieldErrors)
    /\ Keys(latest.outcome.data) \subseteq
         {adaptor.options.fields[i].name : i \in Configured}

\* The names of the configured fields.
ConfiguredNames == {adaptor.options.fields[i].name : i \in Configured}

\* The value a field has in the snapshot when its chain has run.
Coerced(field) ==
  LET cs == CallsAt(field)
  IN IF cs = << >> THEN Get(latest.outcome.given, field)
                   ELSE Get(Last(cs).left, field)

\* C21: with loose, data has every key of the input; a field without
\* validators and a field whose chain failed have the input's value, a field
\* whose chain passed has the value the chain left; fieldErrors and formError
\* are those of the same validation without loose.
C21_LooseKeepsRawInput ==
  (Validated /\ adaptor.options.loose) =>
    LET out == latest.outcome
        strict == StandardValidate([adaptor.options EXCEPT !.loose = FALSE],
                                   [t |-> "object", o |-> out.given])
    IN /\ Keys(out.given) \subseteq Keys(out.data)
       /\ \A k \in Keys(out.given) :
            /\ k \notin ConfiguredNames => out.data[k] = out.given[k]
            /\ (k \in ConfiguredNames /\ Failed(CallsAt(k))) => out.data[k] = out.given[k]
       /\ \A k \in ConfiguredNames : ~Failed(CallsAt(k)) => out.data[k] = Coerced(k)
       /\ out.fieldErrors = strict.fieldErrors
       /\ out.formError = strict.formError

\* C22: when validate has settled the caller's object is what it was when it
\* was passed, with and without loose.
C22_InputNeverAltered ==
  (vstarted > 0 /\ op.name \in {"validate", "validateResume"})
    => latest.outcome.input = latest.outcome.given

\* A validator assigned to the snapshot during a loose validation.
C22_Witness ==
  /\ op.name = "validateResume"
  /\ adaptor.options.loose
  /\ \E p \in 1..Len(Calls) : Calls[p].left # Calls[p].saw
  /\ latest.outcome.given["name"] = JStr("")
  /\ data["name"] = JNull

\* C24: every validator is passed the snapshot as the validator called before
\* it left it (the first one the input's copy), across the validators of a
\* field, across fields and into the form-level validators; the value of a
\* passing field in data is the snapshot's, not the input's.
C24_CoercionIsSeenDownstream ==
  Validated =>
    /\ Calls # << >> => Calls[1].saw = latest.outcome.given
    /\ \A p \in 1..(Len(Calls) - 1) : Calls[p + 1].saw = Calls[p].left
    /\ \A k \in ConfiguredNames :
         (~Failed(CallsAt(k)) /\ k \in Keys(latest.outcome.data))
           => latest.outcome.data[k] = Coerced(k)

\* The empty name was made null by the first field's chain; the second
\* field's validators and a form-level validator were passed the null, and
\* data holds it.
C24_Witness ==
  /\ Validated
  /\ latest.outcome.given["name"] = JStr("")
  /\ latest.outcome.data["name"] = JNull
  /\ CallsAt("email") # << >>
  /\ CallsAt("email")[1].saw["name"] = JNull
  /\ FormCalls # << >>
  /\ FormCalls[1].saw["name"] = JNull
  /\ Len(CallsAt("name")) = 3

C23_MalformedInputRejects ==
  /\ (op.name = "validate" /\ latest.outcome.rejected)
       => /\ latest.outcome.invoked = << >>
          /\ \A id \in DOMAIN vcalls \ {op.id} : Superseded(vcalls[id].signal, aborted)
  /\ (op.name = "validateResume" /\ Last(trace).how = "reject")
       => /\ Self = op.pre
          /\ Len(trace) = 1
          /\ trace[1].error = "Data is not an object"

\* C26 as stated: hasErrors(field) returns true exactly when fieldErrors has an
\* entry for the field, hasErrors() exactly when fieldErrors has an entry or
\* formError is not null; neither assigns a field.
C26_HasErrorsIffRecorded ==
  op.name = "hasErrors"
    => /\ Self = op.pre
       /\ trace[1].arg.t = "string"
            => (trace[1].value <=> trace[1].arg.v \in Keys(fieldErrors))
       /\ trace[1].arg = JUndefined
            => (trace[1].value <=> (Keys(fieldErrors) # {} \/ formError # JNull))

\* C26 amended: hasErrors(field) returns true exactly when fieldErrors has a
\* non-empty message for the field, hasErrors() exactly when fieldErrors has an
\* entry or formError is a non-empty string; neither assigns a field.
C26_HasErrorsIffTruthy ==
  op.name = "hasErrors"
    => /\ Self = op.pre
       /\ trace[1].arg.t = "string"
            => (trace[1].value <=>
                  (fieldErrors[trace[1].arg.v].t = "string" /\ fieldErrors[trace[1].arg.v].v # ""))
       /\ trace[1].arg = JUndefined
            => (trace[1].value <=>
                  (Keys(fieldErrors) # {} \/ (formError.t = "string" /\ formError.v # "")))

\* hasErrors("email") returned true after a validation that failed on email.
C26_Witness ==
  /\ op.name = "hasErrors"
  /\ trace[1].arg = JStr("email")
  /\ trace[1].value
  /\ fieldErrors["email"] = JStr("Required")
  /\ "name" \notin Keys(fieldErrors)

\* C27: every invocation of the wrapper sets submitting, notifies it and
\* calls fn, also when submitting was already true; every invocation that
\* settles sets submitting to false and notifies false, also while another
\* invocation's fn is still running.
C27_NoReentrancyGuard ==
  /\ op.name = "handle"
       => /\ op.id \in DOMAIN hcalls
          /\ submitting = TRUE
          /\ Len(trace) = 1
          /\ trace[1].key = "submitting"
          /\ trace[1].value = TRUE
  /\ op.name = "handleResume"
       => /\ submitting = FALSE
          /\ trace[1].ev = "notify"
          /\ trace[1].key = "submitting"
          /\ trace[1].value = FALSE

\* The first of two overlapping invocations settled: submitting is false and
\* was notified while the second's fn is still running.
C27_Witness ==
  /\ op.name = "handleResume"
  /\ op.pre.submitting
  /\ DOMAIN hcalls # {}
  /\ op.id < hstarted
  /\ subscribers["submitting"] # << >>
  /\ ~submitting

\* C28 as stated: every callback a validate commit calls finds the four
\* slices as the commit leaves them, with isValid true exactly when fieldErrors
\* is empty and formError is null.
C28_CommitAtomicNullFormError ==
  (op.name = "validateResume" /\ Notices(trace) # << >>)
    => \A n \in 1..Len(Notices(trace)) :
         LET seen == Notices(trace)[n].self
         IN /\ seen = Self
            /\ seen.isValid <=> (Keys(seen.fieldErrors) = {} /\ seen.formError = JNull)

\* C28 amended: ... with isValid true exactly when fieldErrors is empty and
\* formError is null or the empty string.
C28_CommitAtomic ==
  (op.name = "validateResume" /\ Notices(trace) # << >>)
    => /\ \A n \in 1..Len(Notices(trace)) :
            LET seen == Notices(trace)[n].self
            IN /\ seen = Self
               /\ seen.isValid <=>
                    (Keys(seen.fieldErrors) = {} /\ seen.formError \in {JNull, JStr("")})
       /\ op.id = latest.id
            => /\ fieldErrors = latest.outcome.fieldErrors
               /\ data = latest.outcome.data
               /\ formError = latest.outcome.formError

\* A commit that fills data and fieldErrors and calls a subscriber of isValid.
C28_Witness ==
  /\ op.name = "validateResume"
  /\ Len(Notices(trace)) = 4
  /\ subscribers["isValid"] # << >>
  /\ Keys(fieldErrors) # {}
  /\ Keys(data) # {}
  /\ ~isValid

C30_ResetDoesNotSupersede ==
  (op.name = "validateResume" /\ op.id = vstarted /\ latest.reset
     /\ Last(trace).how = "resolve")
    => /\ Shown = Committed(latest.outcome)
       /\ Len(Notices(trace)) = 4
       /\ \A n \in 1..4 :
            /\ Notices(trace)[n].value = Self[Notices(trace)[n].key]
            /\ Notices(trace)[n].cbs = subscribers[Notices(trace)[n].key]

\* reset() was called while the call was in flight, and the call's result
\* replaced the neutral fields.
C30_Witness ==
  /\ op.name = "validateResume"
  /\ op.id = vstarted
  /\ latest.reset
  /\ op.pre.data = EmptyObject
  /\ Keys(data) # {}
  /\ subscribers["data"] # << >>

\* The validate call in flight that started last.
NewestInFlight == CHOOSE id \in DOMAIN vcalls : \A other \in DOMAIN vcalls : other <= id

\* C33: whenever a validate call is in flight, lastValidateController is the
\* controller of the call in flight that started last.
C33_ControllerIsNewestInFlight ==
  DOMAIN vcalls # {} => lastValidateController = vcalls[NewestInFlight].signal

\* C32: every validate call in flight eventually settles; it rejects exactly
\* when its adaptor promise rejected and resolves otherwise, committed or
\* superseded; when no call is in flight lastValidateController is null.
C32_ValidateSettles ==
  /\ [](DOMAIN vcalls = {} => lastValidateController = 0)
  /\ [][\A id \in DOMAIN vcalls :
          id \notin DOMAIN vcalls'
            => (Last(trace').how = (IF vcalls[id].outcome.rejected THEN "reject" ELSE "resolve"))]_vars
  /\ \A id \in 1..MaxCalls : (id \in DOMAIN vcalls) ~> (id \notin DOMAIN vcalls)

\* All calls have settled, the last one to return superseded and resolved.
C32_Witness ==
  /\ vstarted = MaxCalls
  /\ DOMAIN vcalls = {}
  /\ op.name = "validateResume"
  /\ op.id \in aborted
  /\ Last(trace).how = "resolve"
  /\ lastValidateController = 0

\* C31: a validate call that rejects because the adaptor rejected assigns no
\* field and notifies no subscriber; when it was made with no validation in
\* flight and no validate call followed it, the four slices are the neutral
\* values its silent reset left, whatever an earlier validation had committed
\* and delivered.
C31_RejectLeavesSilentBaseline ==
  (op.name = "validateResume" /\ Last(trace).how = "reject")
    => /\ Self = op.pre
       /\ Notices(trace) = << >>
       /\ (op.id = latest.id /\ latest.alone)
            => Shown = [fieldErrors |-> EmptyObject, data |-> EmptyObject,
                        formError |-> JNull, isValid |-> FALSE]

\* An earlier validation committed and the isValid callback was called with
\* true; the next validation rejected, no validation is in flight, isValid
\* is false and the callback, still subscribed, was never told.
C31_Witness ==
  /\ op.name = "validateResume"
  /\ Last(trace).how = "reject"
  /\ op.id = latest.id
  /\ latest.alone
  /\ ~latest.reset
  /\ DOMAIN vcalls = {}
  /\ lastValidateController = 0
  /\ subscribers["isValid"] # << >>
  /\ received["isValid"].called
  /\ received["isValid"].value = TRUE
  /\ isValid = FALSE

====
